---- MODULE Spec2Model ----
(***************************************************************************)
(* Model of app.py: the synchrotron formula compute_fields and the         *)
(* Streamlit script that loads a table, checks its columns, applies        *)
(* compute_fields to every row and exports the result table.               *)
(*                                                                         *)
(* Numbers.  A Python float is modelled by its sign and the base-10        *)
(* logarithm of its magnitude in thousandths (a log-number system), so     *)
(* that products, quotients and powers are exact up to the rounding of the *)
(* last thousandth; sums and differences use a correction table.  A value  *)
(* is a record [k, s, m]:                                                  *)
(*    k = "real"     s in {-1,0,1} the sign, m the log-magnitude (0 if s=0)*)
(*    k = "complex"  a Python complex (the result of a negative base       *)
(*                   raised to a non-integer power); s = 0 iff it is 0j    *)
(*    k = "ZeroDivisionError"  the evaluation raised that exception        *)
(* The rows reach compute_fields as Python floats and ints (the rows of a  *)
(* frame with a text column are object rows), so a division by zero        *)
(* raises and a negative base with a fractional exponent yields a complex. *)
(* Exponents and the spectral index are exact rationals <<n, d>>.          *)
(***************************************************************************)
EXTENDS Integers, Sequences, FiniteSets, TLC

Abs(n) == IF n < 0 THEN -n ELSE n

Sign(n) == IF n < 0 THEN -1 ELSE IF n = 0 THEN 0 ELSE 1

Max(a, b) == IF a >= b THEN a ELSE b

(* round(1000 * log10 n) for n = 1 .. 40 *)
Log10Int ==
  << 0, 301, 477, 602, 699, 778, 845, 903, 954, 1000,
     1041, 1079, 1114, 1146, 1176, 1204, 1230, 1255, 1279, 1301,
     1322, 1342, 1362, 1380, 1398, 1415, 1431, 1447, 1462, 1477,
     1491, 1505, 1519, 1531, 1544, 1556, 1568, 1580, 1591, 1602 >>

(* round(1000 * log10(1 + 10^(-d/1000))) for d = 0, 100, .., 3000 *)
LogAddTab ==
  << 301, 254, 212, 176, 146, 119, 97, 79, 64, 51, 41, 33, 27, 21, 17, 14,
     11, 9, 7, 5, 4, 3, 3, 2, 2, 1, 1, 1, 1, 1, 0 >>

(* round(1000 * log10(1 - 10^(-d/1000))) for d = 50, 100, 200, .., 3000 *)
LogSubTab ==
  << -964, -687, -433, -302, -220, -165, -126, -97, -75, -58, -46, -36, -28,
     -22, -18, -14, -11, -9, -7, -6, -4, -3, -3, -2, -2, -1, -1, -1, -1, -1, 0 >>

----------------------------------------------------------------------------
(* Values *)

Real(s, m) == [k |-> "real", s |-> s, m |-> IF s = 0 THEN 0 ELSE m]

Zero == Real(0, 0)

Lit(m) == Real(1, m)

Cx(s, m) == [k |-> "complex", s |-> s, m |-> IF s = 0 THEN 0 ELSE m]

ZDE == [k |-> "ZeroDivisionError", s |-> 0, m |-> 0]

IsErr(x) == x.k = "ZeroDivisionError"

IsComplex(x) == x.k = "complex"

IsReal(x) == x.k = "real"

(* an int n, 0 < |n| <= 40 or n = 0, as a value *)
Num(n) == IF n = 0 THEN Zero ELSE Real(Sign(n), Log10Int[Abs(n)])

----------------------------------------------------------------------------
(* Exact rationals <<n, d>> for the spectral index and the exponents *)

RInt(i) == <<i, 1>>

RAdd(a, b) == <<a[1] * b[2] + b[1] * a[2], a[2] * b[2]>>

RSub(a, b) == <<a[1] * b[2] - b[1] * a[2], a[2] * b[2]>>

RMul(a, b) == <<a[1] * b[1], a[2] * b[2]>>

(* 1 / r ; a zero r gives the denominator 0, the division by zero *)
RInv(r) == <<r[2], r[1]>>

RLess(a, b) == a[1] * b[2] < b[1] * a[2]

REq(a, b) == a[1] * b[2] = b[1] * a[2]

(* the float of a rational with positive denominator *)
RVal(r) ==
  IF r[1] = 0 THEN Zero
  ELSE Real(Sign(r[1]), Log10Int[Abs(r[1])] - Log10Int[r[2]])

----------------------------------------------------------------------------
(* Float arithmetic of Python: *, /, +, -, ** *)

Mul(x, y) ==
  IF IsErr(x) \/ IsErr(y) THEN ZDE
  ELSE IF IsComplex(x) \/ IsComplex(y)
       THEN Cx(Abs(x.s * y.s), x.m + y.m)
       ELSE Real(x.s * y.s, x.m + y.m)

Div(x, y) ==
  IF IsErr(x) \/ IsErr(y) THEN ZDE
  ELSE IF y.s = 0 THEN ZDE
  ELSE IF IsComplex(x) \/ IsComplex(y)
       THEN Cx(Abs(x.s), x.m - y.m)
       ELSE Real(x.s * y.s, x.m - y.m)

Neg(x) == IF IsReal(x) THEN Real(-x.s, x.m) ELSE x

AddMag(m1, m2) ==
  LET d == Abs(m1 - m2)
  IN  Max(m1, m2) + (IF d >= 3000 THEN 0 ELSE LogAddTab[(d \div 100) + 1])

(* log of 10^m1 - 10^m2 for m1 > m2 *)
SubMag(m1, m2) ==
  LET d == m1 - m2
  IN  m1 + (IF d >= 3000 THEN 0 ELSE LogSubTab[(d \div 100) + 1])

Add(x, y) ==
  IF IsErr(x) \/ IsErr(y) THEN ZDE
  ELSE IF IsComplex(x) \/ IsComplex(y)
       THEN IF x.s = 0 /\ y.s = 0 THEN Cx(0, 0)
            ELSE IF x.s = 0 THEN Cx(1, y.m)
            ELSE IF y.s = 0 THEN Cx(1, x.m)
            ELSE Cx(1, Max(x.m, y.m))
  ELSE IF x.s = 0 THEN y
  ELSE IF y.s = 0 THEN x
  ELSE IF x.s = y.s THEN Real(x.s, AddMag(x.m, y.m))
  ELSE IF x.m = y.m THEN Zero
  ELSE IF x.m > y.m THEN Real(x.s, SubMag(x.m, y.m))
  ELSE Real(y.s, SubMag(y.m, x.m))

(* x - y.  Two complex operands are powers of negative bases with the same *)
(* exponent (the only complex differences of compute_fields), so they have *)
(* the same argument and cancel exactly when their moduli are equal.       *)
Sub(x, y) ==
  IF IsErr(x) \/ IsErr(y) THEN ZDE
  ELSE IF IsComplex(x) /\ IsComplex(y)
       THEN IF x.s = y.s /\ x.m = y.m THEN Cx(0, 0)
            ELSE Cx(1, Max(x.m, y.m))
  ELSE Add(x, Neg(y))

(* floor(m * n / d), d > 0 *)
MulQ(m, n, d) == (m * n) \div d

(* x ** e for a rational exponent e = <<n, d>>; d = 0 is an exponent whose *)
(* own evaluation divided by zero.                                         *)
Pow(x, e) ==
  IF IsErr(x) \/ e[2] = 0 THEN ZDE
  ELSE LET n == IF e[2] < 0 THEN -e[1] ELSE e[1]
           d == Abs(e[2])
       IN  IF IsComplex(x)
           THEN IF n = 0 THEN Cx(1, 0)
                ELSE IF x.s = 0 THEN (IF n < 0 THEN ZDE ELSE Cx(0, 0))
                ELSE Cx(1, MulQ(x.m, n, d))
           ELSE IF n = 0 THEN Real(1, 0)
           ELSE IF x.s = 0 THEN (IF n < 0 THEN ZDE ELSE Zero)
           ELSE IF x.s > 0 THEN Real(1, MulQ(x.m, n, d))
           ELSE IF n % d = 0
                THEN Real(IF (n \div d) % 2 = 0 THEN 1 ELSE -1, MulQ(x.m, n, d))
                ELSE Cx(1, MulQ(x.m, n, d))

----------------------------------------------------------------------------
(* Constants for CGS conversions and synchrotron math, as log-magnitudes *)

CGS_KPC == 21489

CGS_MPC == 24489

C1 == 18797

C3 == -2626

M_E == -27041

C_LIGHT == 10477

X_FACTOR == 0

LOG_PI == 497

(* math.sqrt(2/3) *)
SQRT_2_3 == -88

----------------------------------------------------------------------------
(* compute_fields.  A row r has the fields alpha (a rational), gamma1,     *)
(* gamma2 (ints) and v0, s_v0, l, b, w, D_l, Sf (values).                  *)

(* the conversion with the scale factor left out *)
ToCmNoSf(dim, Sf) == Mul(dim, Lit(CGS_KPC))

(* l_cm = l * Sf * CGS_KPC (and b_cm, w_cm alike) *)
ToCm(dim, Sf) == Mul(Mul(dim, Sf), Lit(CGS_KPC))

(* V = (4 / 3) * math.pi * l_cm * b_cm * w_cm * 0.125 *)
Volume(l_cm, b_cm, w_cm) ==
  Mul(Mul(Mul(Mul(Mul(Div(Num(4), Num(3)), Lit(LOG_PI)), l_cm), b_cm), w_cm),
      Lit(-903))

(* L1 = 4 * math.pi * D_l_cm**2 * s_v0_cgs * v0_hz**alpha *)
Lum1(D_l_cm, s_v0_cgs, v0_hz, alpha) ==
  Mul(Mul(Mul(Mul(Num(4), Lit(LOG_PI)), Pow(D_l_cm, RInt(2))), s_v0_cgs),
      Pow(v0_hz, alpha))

(* (g2 - 1)**e - (g1 - 1)**e *)
PowDiff(g1, g2, e) == Sub(Pow(Num(g2 - 1), e), Pow(Num(g1 - 1), e))

(* M_E * C_LIGHT**2 *)
MEC2 == Mul(Lit(M_E), Pow(Lit(C_LIGHT), RInt(2)))

(* the factor with the exponent 1 / (3 - alpha) *)
EqFactorWrongExponent(alpha) ==
  Pow(Div(Num(2), RVal(RAdd(RInt(1), alpha))), RInv(RSub(RInt(3), alpha)))

(* (2 / (1 + alpha))**(1 / (3 + alpha)) *)
EqFactor(alpha) ==
  Pow(Div(Num(2), RVal(RAdd(RInt(1), alpha))), RInv(RAdd(RInt(3), alpha)))

(* the values of the locals of compute_fields, in the order of the code *)
Locals(r) ==
  LET alpha    == r.alpha
      x        == Num(X_FACTOR)
      l_cm     == ToCm(r.l, r.Sf)
      b_cm     == ToCm(r.b, r.Sf)
      w_cm     == ToCm(r.w, r.Sf)
      D_l_cm   == Mul(r.D_l, Lit(CGS_MPC))
      v0_hz    == Mul(r.v0, Lit(6000))
      s_v0_cgs == Mul(r.s_v0, Lit(-23000))
      p        == RAdd(RMul(RInt(2), alpha), RInt(1))
      V        == Volume(l_cm, b_cm, w_cm)
      L1       == Lum1(D_l_cm, s_v0_cgs, v0_hz, alpha)
      T3       == PowDiff(r.gamma1, r.gamma2, RSub(RInt(2), p))
      T4       == PowDiff(r.gamma1, r.gamma2,
                          RMul(RInt(2), RSub(RInt(1), alpha)))
      T5       == PowDiff(r.gamma1, r.gamma2, RSub(RInt(3), p))
      T6       == Div(Mul(T3, T4), T5)
      T1       == Div(Mul(Num(3), L1),
                      Mul(Mul(Num(2), Lit(C3)),
                          Pow(MEC2, RSub(RMul(RInt(2), alpha), RInt(1)))))
      T2       == Mul(Div(Mul(Div(Add(Num(1), x), RVal(RSub(RInt(1), alpha))),
                              RVal(RSub(RInt(3), p))),
                          RVal(RSub(RInt(2), p))),
                      Pow(Mul(Lit(SQRT_2_3), Lit(C1)), RSub(RInt(1), alpha)))
      A        == Mul(Mul(T1, T2), T6)
      L        == Mul(Mul(Div(L1, RVal(RSub(RInt(1), alpha))),
                          Pow(Mul(Mul(Lit(SQRT_2_3), Lit(C1)),
                                  Pow(MEC2, RInt(2))),
                              RSub(RInt(1), alpha))),
                      T4)
      B_min    == Pow(Div(Mul(Mul(Mul(Num(4), Lit(LOG_PI)),
                                  RVal(RAdd(RInt(1), alpha))), A), V),
                      RInv(RAdd(RInt(3), alpha)))
      B_eq     == Mul(EqFactor(alpha), B_min)
      u_b      == Div(Pow(B_min, RInt(2)), Mul(Num(8), Lit(LOG_PI)))
      u_p      == Mul(Div(A, V), Pow(B_min, RAdd(RInt(-1), alpha)))
      u_tot    == Add(u_p, u_b)
  IN  [V |-> V, L1 |-> L1, T3 |-> T3, T4 |-> T4, T5 |-> T5, T6 |-> T6,
       T1 |-> T1, T2 |-> T2, A |-> A, L |-> L, D_l_cm |-> D_l_cm,
       B_min |-> B_min, B_eq |-> B_eq, u_b |-> u_b, u_p |-> u_p,
       u_tot |-> u_tot]

(* the tuple of line 49 *)
ReturnTuple(r, c) ==
  << r.alpha, Mul(c.B_min, Lit(6000)), Mul(c.B_eq, Lit(6000)), c.D_l_cm, c.L,
     c.u_p, c.u_b, c.u_tot >>

(* The outcome of a call: the exception it raises, or "none" and the       *)
(* returned tuple.  Every local flows into the tuple and the only          *)
(* exception of the arithmetic is ZeroDivisionError, so the call raises    *)
(* exactly when one of the returned fields could not be evaluated.         *)
compute_fields(r) ==
  LET c == Locals(r)
      t == ReturnTuple(r, c)
  IN  IF \E j \in 2..8 : IsErr(t[j])
      THEN [exc |-> "ZeroDivisionError", ret |-> <<>>]
      ELSE [exc |-> "none", ret |-> t]

----------------------------------------------------------------------------
(* Input rows *)

(* bounds of the model *)
MaxBad == 2

MaxK == 1

MaxRows == 3

MaxMissing == 2

(* spectral indices: -7/2, -3, -2, -3/2, -1, 0, 1/4, 1/2, 3/4, 1, 3/2 *)
Alphas ==
  { <<-7, 2>>, <<-3, 1>>, <<-2, 1>>, <<-3, 2>>, <<-1, 1>>, <<0, 1>>,
    <<1, 4>>, <<1, 2>>, <<3, 4>>, <<1, 1>>, <<3, 2>> }

Gammas == {0, 1, 2, 11, 41}

NumFields == {"v0", "s_v0", "l", "b", "w", "D_l", "Sf"}

(* v0 = 1400 MHz, s_v0 = 1 Jy, l = 50, b = w = 20 kpc, D_l = 200 Mpc, Sf = 1 *)
BaseMag ==
  [f \in NumFields |->
     CASE f = "v0"   -> 3146
       [] f = "s_v0" -> 0
       [] f = "l"    -> 1699
       [] f = "b"    -> 1301
       [] f = "w"    -> 1301
       [] f = "D_l"  -> 2301
       [] f = "Sf"   -> 0]

MkRow(src, alpha, g1, g2, sg) ==
  [Source |-> src, alpha |-> alpha, gamma1 |-> g1, gamma2 |-> g2,
   v0   |-> Real(sg["v0"], BaseMag["v0"]),
   s_v0 |-> Real(sg["s_v0"], BaseMag["s_v0"]),
   l    |-> Real(sg["l"], BaseMag["l"]),
   b    |-> Real(sg["b"], BaseMag["b"]),
   w    |-> Real(sg["w"], BaseMag["w"]),
   D_l  |-> Real(sg["D_l"], BaseMag["D_l"]),
   Sf   |-> Real(sg["Sf"], BaseMag["Sf"])]

AllPos == [f \in NumFields |-> 1]

(* sign patterns with at most MaxBad fields that are zero or negative *)
SignPatterns ==
  { sg \in [NumFields -> {-1, 0, 1}] :
      Cardinality({f \in NumFields : sg[f] <= 0}) <= MaxBad }

FnRows ==
  { MkRow("S", a, g1, g2, sg) :
      a \in Alphas, g1 \in Gammas, g2 \in Gammas, sg \in SignPatterns }

(* the stated input constraints of a row *)
Positive(r) == \A f \in NumFields : r[f].k = "real" /\ r[f].s > 0

ValidRow(r) ==
  /\ RLess(r.alpha, RInt(1))
  /\ ~REq(r.alpha, RInt(-3))
  /\ r.gamma2 > r.gamma1
  /\ r.gamma1 > 1
  /\ Positive(r)

(* (l, b, w, Sf) replaced by (k*l, k*b, k*w, Sf/k) for k = 10^j *)
Scaled(r, j) ==
  LET k == Lit(1000 * j)
  IN  [r EXCEPT !.l = Mul(k, r.l), !.b = Mul(k, r.b), !.w = Mul(k, r.w),
                !.Sf = Div(r.Sf, k)]

----------------------------------------------------------------------------
(* State *)

VARIABLES
  pc,        \* position of the script run, or of the direct call
  df,        \* the uploaded table: [columns, rows]
  missing,   \* the list of line 75
  results,   \* the tuples df.apply has collected so far
  df_out,    \* the result frame: [columns, data], or NoFrame
  csv_data,  \* the exported table: [header, lines], or NoCsv
  ui,        \* the messages and widgets the script has shown
  args,      \* the row of the last call of compute_fields
  out,       \* the outcome of the last call of compute_fields
  prev,      \* the outcome before the row was rescaled
  calls      \* number of calls of compute_fields

vars == <<pc, df, missing, results, df_out, csv_data, ui, args, out, prev,
          calls>>

NoFrame == [columns |-> <<>>, data |-> <<>>]

NoCsv == [header |-> <<>>, lines |-> <<>>]

NoRow == [Source |-> "none"]

NoOut == [exc |-> "not called", ret |-> <<>>]

NoTable == [columns |-> {}, rows |-> <<>>]

----------------------------------------------------------------------------
(* Direct calls of compute_fields *)

FnInit ==
  /\ pc = "call"
  /\ args \in FnRows
  /\ out = NoOut
  /\ prev = NoOut
  /\ df = NoTable
  /\ missing = <<>>
  /\ results = <<>>
  /\ df_out = NoFrame
  /\ csv_data = NoCsv
  /\ ui = <<>>
  /\ calls = 0

Call ==
  /\ pc = "call"
  /\ out' = compute_fields(args)
  /\ calls' = calls + 1
  /\ pc' = "returned"
  /\ UNCHANGED <<df, missing, results, df_out, csv_data, ui, args, prev>>

Rescale ==
  /\ pc = "returned"
  /\ prev = NoOut
  /\ \E j \in (-MaxK .. MaxK) \ {0} :
       args' = Scaled(args, j)
  /\ prev' = out
  /\ pc' = "call"
  /\ UNCHANGED <<df, missing, results, df_out, csv_data, ui, out, calls>>

FnNext == Call \/ Rescale

FnSpec == FnInit /\ [][FnNext]_vars

----------------------------------------------------------------------------
(* The script: upload, read_csv, column check, df.apply, export *)

required ==
  << "Source", "alpha", "gamma1", "gamma2", "v0", "s_v0", "l", "b", "w",
     "D_l", "Sf" >>

Range(q) == {q[i] : i \in DOMAIN q}

(* column names that are not required ones: other spellings, extras *)
OtherColumns == {"source", "Alpha", "notes"}

ColumnSets ==
  { (Range(required) \ gone) \cup extra :
      gone \in {g \in SUBSET Range(required) : Cardinality(g) <= MaxMissing},
      extra \in {{}, OtherColumns} }

(* the rows of the uploaded tables: three well-formed sources and one with *)
(* gamma1 == gamma2                                                        *)
BatchRows ==
  { MkRow("A", <<3, 4>>, 11, 41, AllPos),
    MkRow("B", <<1, 4>>, 2, 41, AllPos),
    MkRow("C", <<3, 4>>, 11, 11, AllPos),
    MkRow("D", <<0, 1>>, 2, 11, AllPos) }

(* the frames read_csv can return here: any set of columns, one to MaxRows *)
(* data rows                                                               *)
Tables ==
  { [columns |-> cs, rows |-> rs] :
      cs \in ColumnSets,
      rs \in UNION {[1..n -> BatchRows] : n \in 1..MaxRows} }

(* the column check comparing names without regard to case *)
MissingIgnoringCase(columns) ==
  SelectSeq(required,
            LAMBDA c : /\ c \notin columns
                       /\ ~(c = "alpha" /\ "Alpha" \in columns)
                       /\ ~(c = "Source" /\ "source" \in columns))

(* missing = [c for c in required if c not in df.columns] *)
Missing(columns) == SelectSeq(required, LAMBDA c : c \notin columns)

(* Series.round(3): magnitudes below 0.0005 become 0 *)
Round3(x) == IF x.s # 0 /\ x.m < -3301 THEN [x EXCEPT !.s = 0, !.m = 0] ELSE x

(* f"{x:.2e}": the value as text *)
Sci2(x) == [k |-> "text", s |-> x.s, m |-> x.m]

(* results[c]: column c of the expanded tuples *)
ResultColumn(res, c) == [i \in 1..Len(res) |-> res[i][c + 1]]

MapSeq(q, F(_)) == [i \in 1..Len(q) |-> F(q[i])]

(* the column names of df_out, with u for the micro sign and 3 for the     *)
(* superscript three                                                       *)
OutColumns ==
  << "Source", "Alpha", "B_min (uG)", "B_eq (uG)", "D_L (cm)", "L (erg/s)",
     "u_p (erg/cm3)", "u_B (erg/cm3)", "u_total (erg/cm3)" >>

(* df_out = pd.DataFrame({...}) of lines 87-97 *)
BuildOut(d, res) ==
  [columns |-> OutColumns,
   data |->
     [c \in Range(OutColumns) |->
        CASE c = "Source"            -> [i \in 1..Len(d.rows) |-> d.rows[i].Source]
          [] c = "Alpha"             -> ResultColumn(res, 0)
          [] c = "B_min (uG)"        -> MapSeq(ResultColumn(res, 1), Round3)
          [] c = "B_eq (uG)"         -> MapSeq(ResultColumn(res, 2), Round3)
          [] c = "D_L (cm)"          -> MapSeq(ResultColumn(res, 3), Sci2)
          [] c = "L (erg/s)"         -> MapSeq(ResultColumn(res, 4), Sci2)
          [] c = "u_p (erg/cm3)"     -> MapSeq(ResultColumn(res, 5), Sci2)
          [] c = "u_B (erg/cm3)"     -> MapSeq(ResultColumn(res, 6), Sci2)
          [] c = "u_total (erg/cm3)" -> MapSeq(ResultColumn(res, 7), Sci2)]]

(* the export writing the lines in reverse index order *)
ToCsvReversed(frame) ==
  LET n == Len(frame.data[frame.columns[1]])
  IN  [header |-> frame.columns,
       lines  |-> [i \in 1..n |->
                     [j \in 1..Len(frame.columns) |->
                        frame.data[frame.columns[j]][n + 1 - i]]]]

(* df_out.to_csv(index=False): the header line and one line per index *)
ToCsv(frame) ==
  [header |-> frame.columns,
   lines  |-> [i \in 1..Len(frame.data[frame.columns[1]]) |->
                 [j \in 1..Len(frame.columns) |-> frame.data[frame.columns[j]][i]]]]

Msg(kind, text, payload) == [kind |-> kind, text |-> text, payload |-> payload]

Init ==
  /\ pc = "start"
  /\ df \in Tables \cup {NoTable}
  /\ missing = <<>>
  /\ results = <<>>
  /\ df_out = NoFrame
  /\ csv_data = NoCsv
  /\ ui = <<>>
  /\ args = NoRow
  /\ out = NoOut
  /\ prev = NoOut
  /\ calls = 0

(* if uploaded_file: is false, the run only draws the page *)
NoUpload ==
  /\ pc = "start"
  /\ df = NoTable
  /\ pc' = "done"
  /\ UNCHANGED <<df, missing, results, df_out, csv_data, ui, args, out, prev,
                 calls>>

(* pd.read_csv returns the frame *)
ReadCsv ==
  /\ pc = "start"
  /\ df # NoTable
  /\ pc' = "loaded"
  /\ UNCHANGED <<df, missing, results, df_out, csv_data, ui, args, out, prev,
                 calls>>

(* pd.read_csv raises: st.error, nothing else *)
ReadCsvFails ==
  /\ pc = "start"
  /\ df # NoTable
  /\ ui' = Append(ui, Msg("error", "Could not read file", <<>>))
  /\ pc' = "done"
  /\ UNCHANGED <<df, missing, results, df_out, csv_data, args, out, prev,
                 calls>>

(* lines 74-78 *)
CheckColumns ==
  /\ pc = "loaded"
  /\ missing' = Missing(df.columns)
  /\ IF missing' # <<>>
     THEN /\ ui' = Append(ui, Msg("error", "Missing columns", missing'))
          /\ pc' = "done"
     ELSE /\ ui' = ui
          /\ pc' = "apply"
  /\ UNCHANGED <<df, results, df_out, csv_data, args, out, prev, calls>>

(* df.apply calls the lambda on the next row; an exception of the call     *)
(* propagates out of df.apply and ends the script run                      *)
ApplyRow ==
  /\ pc = "apply"
  /\ Len(results) < Len(df.rows)
  /\ LET r == df.rows[Len(results) + 1]
         o == compute_fields(r)
     IN  /\ args' = r
         /\ out' = o
         /\ calls' = calls + 1
         /\ IF o.exc # "none"
            THEN /\ pc' = "exception"
                 /\ ui' = Append(ui, Msg("exception", o.exc, <<>>))
                 /\ results' = results
            ELSE /\ pc' = "apply"
                 /\ ui' = ui
                 /\ results' = Append(results, o.ret)
  /\ UNCHANGED <<df, missing, df_out, csv_data, prev>>

(* lines 87-108 *)
Export ==
  /\ pc = "apply"
  /\ Len(results) = Len(df.rows)
  /\ df_out' = BuildOut(df, results)
  /\ csv_data' = ToCsv(df_out')
  /\ ui' = ui \o << Msg("success", "Calculation complete!", <<>>),
                    Msg("dataframe", "df_out", <<>>),
                    Msg("download_button", "magnetic_fields_results.csv", <<>>) >>
  /\ pc' = "done"
  /\ UNCHANGED <<df, missing, results, args, out, prev, calls>>

Next == NoUpload \/ ReadCsv \/ ReadCsvFails \/ CheckColumns \/ ApplyRow \/ Export

Spec == Init /\ [][Next]_vars

----------------------------------------------------------------------------
(* Properties *)

Returned == pc = "returned"

GammasValid(r) == r.gamma2 > r.gamma1 /\ r.gamma1 > 1

AllRealFields(t) == \A j \in 2..8 : t[j].k = "real"

(* C1: a call with alpha == 1 or alpha == -3, all other inputs valid, ends *)
(* in a DomainError: no raw arithmetic fault and no result tuple.          *)
C1_AlphaPolesDomainError ==
  (Returned /\ (REq(args.alpha, RInt(1)) \/ REq(args.alpha, RInt(-3)))
            /\ GammasValid(args) /\ Positive(args))
    => out.exc = "DomainError"

(* C2: a call with gamma1 <= 1 or gamma2 <= gamma1 ends in a DomainError   *)
(* and returns no tuple; T6 is never evaluated with T5 == 0.               *)
C2_GammaBoundsDomainError ==
  (Returned /\ (args.gamma1 <= 1 \/ args.gamma2 <= args.gamma1))
    => /\ out.exc = "DomainError"
       /\ Locals(args).T5.s # 0

(* C3: a call in which one of v0, s_v0, l, b, w, D_l, Sf is <= 0 ends in a *)
(* DomainError and returns no tuple.                                       *)
C3_NonPositiveDomainError ==
  (Returned /\ \E f \in NumFields : args[f].s <= 0)
    => out.exc = "DomainError"

RowSucceeds(r) == compute_fields(r).exc = "none"

RunEnded == pc \in {"done", "exception"}

(* C4: per-row isolation: once the run of a table with all required        *)
(* columns has ended, every row whose computation succeeds has its line in *)
(* the output table and every failing row is reported as failed; a failing *)
(* row does not abort the batch.                                           *)
C4_BatchIsolation ==
  (RunEnded /\ calls > 0)
    => /\ pc = "done"
       /\ Len(csv_data.lines) =
            Cardinality({i \in 1..Len(df.rows) : RowSucceeds(df.rows[i])})
       /\ Cardinality({i \in 1..Len(ui) : ui[i].kind = "exception"}) =
            Cardinality({i \in 1..Len(df.rows) : ~RowSucceeds(df.rows[i])})

LacksColumn == df # NoTable /\ \E c \in Range(required) : c \notin df.columns

ReadFailed == \E i \in 1..Len(ui) : ui[i].text = "Could not read file"

(* C5: the schema check precedes the computation: a loaded table that      *)
(* lacks a required column (names are case-sensitive) gets exactly the     *)
(* list of the missing names reported, compute_fields is never called and  *)
(* no result table or download is produced; compute_fields is called only  *)
(* after the missing list was found empty.                                 *)
C5_SchemaCheckFirst ==
  /\ LacksColumn => (calls = 0 /\ df_out = NoFrame /\ csv_data = NoCsv)
  /\ (LacksColumn /\ pc = "done" /\ ~ReadFailed)
       => /\ Len(ui) = 1
          /\ ui[1].kind = "error"
          /\ ui[1].text = "Missing columns"
          /\ Range(ui[1].payload) = Range(required) \ df.columns
          /\ Len(ui[1].payload) = Cardinality(Range(required) \ df.columns)
  /\ calls > 0 => (missing = <<>> /\ Range(required) \subseteq df.columns
                   /\ pc \in {"apply", "exception", "done"})

C5_Witness ==
  /\ pc = "done"
  /\ Len(missing) = 2
  /\ "alpha" \in Range(missing)
  /\ "Alpha" \in df.columns
  /\ Len(ui) = 1

(* C6: no returned numeric field is NaN, infinite or complex.              *)
C6_NoNonRealReturned ==
  (Returned /\ out.exc = "none") => AllRealFields(out.ret)

(* C7: on every row with alpha < 1, alpha # -3, gamma2 > gamma1 > 1 and    *)
(* all of v0, s_v0, l, b, w, D_l, Sf positive, compute_fields returns the  *)
(* 8-tuple with every field finite and real and raises nothing.            *)
C7_TotalOnValidDomain ==
  (Returned /\ ValidRow(args))
    => /\ out.exc = "none"
       /\ Len(out.ret) = 8
       /\ AllRealFields(out.ret)

SfOnly(r, j) == [r EXCEPT !.Sf = Mul(Lit(1000 * j), r.Sf)]

(* C8: scale-factor invariance: for a valid row, replacing (l, b, w, Sf)   *)
(* by (k*l, k*b, k*w, Sf/k) leaves V and the whole outcome unchanged, and  *)
(* D_l_cm and L do not depend on Sf.                                       *)
C8_ScaleInvariance ==
  (Returned /\ ValidRow(args))
    => /\ prev # NoOut => out = prev
       /\ \A j \in (-MaxK .. MaxK) \ {0} :
            /\ Locals(Scaled(args, j)).V = Locals(args).V
            /\ out.exc = "none" =>
                 LET o2 == compute_fields(SfOnly(args, j))
                 IN  /\ o2.exc = "none"
                     /\ o2.ret[4] = out.ret[4]
                     /\ o2.ret[5] = out.ret[5]

C8_Witness ==
  /\ Returned
  /\ ValidRow(args)
  /\ prev # NoOut
  /\ out.exc = "none"
  /\ args.Sf.m # BaseMag["Sf"]
  /\ args.l.m # BaseMag["l"]

(* C9: for every valid row the returned B_eq is                            *)
(* (2/(1+alpha))^(1/(3+alpha)) times the returned B_min, and B_eq > B_min  *)
(* whenever 0 < alpha < 1.                                                 *)
C9_Equipartition ==
  (Returned /\ ValidRow(args) /\ out.exc = "none")
    => LET a == args.alpha
           f == Pow(Div(Num(2), RVal(<<a[2] + a[1], a[2]>>)),
                    <<a[2], 3 * a[2] + a[1]>>)
       IN  /\ out.ret[3] = Mul(f, out.ret[2])
           /\ (RLess(RInt(0), a) /\ RLess(a, RInt(1)))
                => /\ out.ret[2].k = "real" /\ out.ret[3].k = "real"
                   /\ out.ret[2].s = 1 /\ out.ret[3].s = 1
                   /\ out.ret[3].m > out.ret[2].m

C9_Witness ==
  /\ Returned
  /\ ValidRow(args)
  /\ out.exc = "none"
  /\ args.alpha = <<3, 4>>
  /\ out.ret[3].m > out.ret[2].m

SpecHeader ==
  << "Source", "B_min (uG)", "B_eq (uG)", "D_L (cm)", "L (erg/s)",
     "u_p (erg/cm3)", "u_B (erg/cm3)", "u_total (erg/cm3)" >>

Exported == pc = "done" /\ csv_data # NoCsv

(* line i of the export pairs the Source of input row i with the values    *)
(* computed from input row i, from column `first` on                       *)
LinesFollowInput(first) ==
  /\ Len(csv_data.lines) = Len(df.rows)
  /\ \A i \in 1..Len(df.rows) :
       LET t == compute_fields(df.rows[i]).ret
           ln == csv_data.lines[i]
       IN  /\ ln[1] = df.rows[i].Source
           /\ ln[first] = Round3(t[2])
           /\ ln[first + 1] = Round3(t[3])
           /\ \A j \in 4..8 : ln[first + j - 2] = Sci2(t[j])

(* C10 as stated: the exported table has exactly the header Source, B_min, *)
(* B_eq, D_L, L, u_p, u_B, u_total, in that order and with no other        *)
(* column, and one data row per input row in input order, each Source      *)
(* paired with the values of its own row.                                  *)
C10_ExportAsStated ==
  Exported => (csv_data.header = SpecHeader /\ LinesFollowInput(2))

(* C10 amended: the exported table has exactly the header Source, Alpha,   *)
(* B_min, B_eq, D_L, L, u_p, u_B, u_total, in that order, the Alpha column *)
(* holding the spectral index of the row, and one data row per input row   *)
(* in input order, each Source paired with the values of its own row.      *)
C10_ExportWithAlpha ==
  Exported
    => /\ csv_data.header =
            <<"Source", "Alpha">> \o SubSeq(SpecHeader, 2, Len(SpecHeader))
       /\ \A i \in 1..Len(csv_data.lines) :
            /\ Len(csv_data.lines[i]) = 9
            /\ csv_data.lines[i][2] = df.rows[i].alpha
       /\ LinesFollowInput(3)

C10_Witness ==
  /\ Exported
  /\ Len(csv_data.lines) >= 3
  /\ csv_data.lines[1][1] # csv_data.lines[2][1]
  /\ csv_data.lines[2][1] # csv_data.lines[3][1]

====
